---------------------------- MODULE Spec2Model ----------------------------
(***************************************************************************)
(* A model of the two algorithms of the LLM scripts and of their callers:  *)
(*   - the retry loop safe_generate (GeminiLLM/gemini_llm.py),             *)
(*   - the section splitter that every script applies to a response, and   *)
(*   - generate_ai_ideas / generate_projects, which call both,             *)
(*   - pretty_print_projects (CerebrasLLM/cerebras_llm.py), which cuts a   *)
(*     response into numbered records before splitting each one, and       *)
(*   - the scripts of cerebras_llm.py, yandex_llm.py and main.py, which    *)
(*     call generate without a retry loop.                                 *)
(* Strings are sequences of one-character strings; positions are Python's  *)
(* 0-based indices and -1 is str.find's "not found".  The Russian literals *)
(* of the source are written in ASCII ("IDEA " for the idea marker, the    *)
(* English section labels of the specification for the four headers).      *)
(***************************************************************************)
EXTENDS Integers, Sequences, FiniteSets, TLC

VARIABLES
    \* ---- the section splitter ----
    text,       \* the text being split (text / proj_text)
    sections,   \* the ordered header list
    variant,    \* which copy of the splitter runs
    i,          \* 0-based index of the loop over sections
    start,      \* the search cursor
    printed,    \* the entries printed by this run, in order
    iters,      \* the locals of every iteration of this run (history)
    spc,        \* position of the splitter: "idle" | "loop" | "done"
    \* ---- safe_generate ----
    max_retries,  \* the value of MAX_RETRIES that range() reads
    attempt,      \* the loop variable
    err,          \* the exception bound by "except Exception as e"
    wait_time,    \* 2 ** attempt
    result,       \* the value returned by the last call
    trace,        \* what the running call did: ok / fail / log / sleep events
    purpose,      \* which prompt is sent
    rpc,          \* "idle" | "attempt" | "log" | "sleep" | "returned" | "raised"
    \* ---- generate_ai_ideas, generate_projects ----
    count,      \* the number of ideas asked for
    models,     \* the list of models handed to generate_projects
    raw,        \* the first response of generate_ai_ideas
    extra_raw,  \* its follow-up response
    ideas,      \* the list of ideas
    idx,        \* 1-based index of the idea generate_projects works on
    midx,       \* 1-based index of the model it works on
    results,    \* results[idx][model name]
    returns,    \* which calls of safe_generate have returned, and whether None
    gerr,       \* the Python error that ended the script, or "none"
    gpc,        \* position of the script
    \* ---- the scripts of cerebras_llm.py, yandex_llm.py and main.py ----
    provider,           \* which script runs: "gemini" | "yandex" | "cerebras" | "main"
    answer,             \* the text handed to pretty_print_projects
    project_positions,  \* the (number, position) pairs of the markers
    rec,                \* 0-based index of the loop over project_positions
    shown,              \* the records whose heading was printed (history)
    ai_ideas,           \* the list of ideas of yandex_llm.py / main.py
    yidx,               \* 1-based index of the idea being worked on
    requests,           \* the requests sent by generate, with their outcome
    serr,               \* the error that ended the script, or "none"
    scpc                \* position of the script

splitVars == <<text, sections, variant, i, start, printed, iters, spc>>
retryVars == <<max_retries, attempt, err, wait_time, result, trace, purpose, rpc>>
callerVars ==
    <<count, models, raw, extra_raw, ideas, idx, midx, results, returns, gerr, gpc>>

scriptVars ==
    <<provider, answer, project_positions, rec, shown, ai_ideas, yidx, requests,
      serr, scpc>>

vars == <<splitVars, retryVars, callerVars, scriptVars>>

(***************************************************************************)
(* Bounds of the model.                                                    *)
(***************************************************************************)
MaxLen == 4        \* longest exhaustively enumerated text
MaxHeaders == 3    \* longest exhaustively enumerated header list
MaxCount == 2      \* largest number of ideas asked for

(***************************************************************************)
(* Python's string operations, computed as CPython computes them.          *)
(***************************************************************************)
WS == {" ", "\n"}

Min(a, b) == IF a < b THEN a ELSE b

\* s[a:b] for 0 <= a, 0 <= b: empty when a >= b or a >= len(s).
Slice(s, a, b) == SubSeq(s, a + 1, Min(b, Len(s)))

\* s.find(sub, k): a left-to-right scan for the first match at or after k.
RECURSIVE Find(_, _, _)
Find(s, sub, k) ==
    IF k + Len(sub) > Len(s) THEN -1
    ELSE IF SubSeq(s, k + 1, k + Len(sub)) = sub THEN k
    ELSE Find(s, sub, k + 1)

RECURSIVE LStrip(_)
LStrip(s) == IF s # <<>> /\ Head(s) \in WS THEN LStrip(Tail(s)) ELSE s

RECURSIVE RStrip(_)
RStrip(s) ==
    IF s # <<>> /\ s[Len(s)] \in WS THEN RStrip(SubSeq(s, 1, Len(s) - 1)) ELSE s

\* s.strip()
Strip(s) == RStrip(LStrip(s))

(***************************************************************************)
(* The section splitter: one iteration of                                  *)
(*     for i, header in enumerate(sections): ...                           *)
(***************************************************************************)
Variants ==
    {"generate_projects", "generate_and_print_projects", "main",
     "pretty_print_projects"}

\* next_pos: searched from pos, for the label that follows in the LIST.
NextPos_FromCursor(t, secs, k, pos, st) ==
    IF k + 1 < Len(secs)
    THEN LET np == Find(t, secs[k + 2], st)
         IN  IF np = -1 THEN Len(t) ELSE np
    ELSE Len(t)

NextPos(t, secs, k, pos, st) ==
    IF k + 1 < Len(secs)
    THEN LET np == Find(t, secs[k + 2], pos)
         IN  IF np = -1 THEN Len(t) ELSE np
    ELSE Len(t)

\* content = text[pos + len(header):next_pos].strip()
Content_NoStrip(t, header, pos, next_pos) ==
    Slice(t, pos + Len(header), next_pos)

Content(t, header, pos, next_pos) ==
    Strip(Slice(t, pos + Len(header), next_pos))

\* Whether the entry is printed: pretty_print_projects alone drops an empty
\* content ("if content:"), the other copies print unconditionally.
Prints(v, content) ==
    IF v = "pretty_print_projects" THEN content # <<>> ELSE TRUE

\* The iteration without its "continue": the header counts as found always.
SplitIter_NoContinue(t, secs, k, st) ==
    LET header == secs[k + 1]
        pos == Find(t, header, st)
        next_pos == NextPos(t, secs, k, IF pos = -1 THEN st ELSE pos, st)
    IN  [idx |-> k, header |-> header, found |-> TRUE, pos |-> pos,
         next_pos |-> next_pos,
         content |-> Content(t, header, IF pos = -1 THEN st ELSE pos, next_pos),
         cursor |-> st, start |-> next_pos]

\* The locals after the iteration for sections[k+1] with cursor st.
SplitIter(t, secs, k, st) ==
    LET header == secs[k + 1]
        pos == Find(t, header, st)
    IN  IF pos = -1
        THEN [idx |-> k, header |-> header, found |-> FALSE, pos |-> -1,
              next_pos |-> -1, content |-> <<>>, cursor |-> st, start |-> st]
        ELSE LET next_pos == NextPos(t, secs, k, pos, st)
             IN  [idx |-> k, header |-> header, found |-> TRUE, pos |-> pos,
                  next_pos |-> next_pos,
                  content |-> Content(t, header, pos, next_pos),
                  cursor |-> st, start |-> next_pos]

(***************************************************************************)
(* Inputs of the splitter.                                                 *)
(***************************************************************************)
Alphabet == {"A", "B", ":", " "}

RECURSIVE SeqsUpTo(_, _)
SeqsUpTo(S, n) ==
    IF n = 0 THEN {<<>>}
    ELSE LET shorter == SeqsUpTo(S, n - 1)
         IN  shorter \cup {Append(s, c) : s \in {x \in shorter : Len(x) = n - 1}, c \in S}

ShortTexts == SeqsUpTo(Alphabet, MaxLen)

\* "B" is a substring of "B:" (the hazard the specification names).
HeaderPool == {<<"A", ":">>, <<"B", ":">>, <<"B">>}

Injective(s) == \A a, b \in 1..Len(s) : s[a] = s[b] => a = b

HeaderLists ==
    {hs \in SeqsUpTo(HeaderPool, MaxHeaders) : hs # <<>> /\ Injective(hs)}

\* Bodies of built texts: trimmed, non-empty, holding no header of the pool.
BodyPool == {<<"x">>, <<"A">>, <<"x", " ", "y">>}

Gaps == {<<>>, <<"\n">>}

\* header1 gap body1 " " header2 gap body2 ...
RECURSIVE Build(_, _, _)
Build(hs, bs, gap) ==
    IF hs = <<>> THEN <<>>
    ELSE hs[1] \o gap \o bs[1]
         \o (IF Len(hs) = 1 THEN <<>>
             ELSE <<" ">> \o Build(Tail(hs), Tail(bs), gap))

BodyLists(n) == [1..n -> BodyPool]

BuiltInputs ==
    UNION {{<<Build(hs, bs, gap), hs>> : bs \in BodyLists(Len(hs)), gap \in Gaps} :
              hs \in HeaderLists}

\* The worked examples of the specification.
AbcText == <<"A", ":", "b", "o", "d", "y", "1", " ", "C", ":", "b", "o", "d", "y", "3">>
AbcHeaders == << <<"A", ":">>, <<"B", ":">>, <<"C", ":">> >>

\* The four section labels every script searches for.
SectionLabels ==
    << <<"T", "e", "c", "h", "n", "i", "c", "a", "l", " ", "d", "e", "s", "c", "r", "i", "p", "t", "i", "o", "n", ":">>,
       <<"T", "e", "c", "h", "n", "o", "l", "o", "g", "i", "e", "s", ":">>,
       <<"S", "t", "e", "p", "s", ":">>,
       <<"C", "o", "m", "p", "l", "e", "x", "i", "t", "y", ":">> >>

E2EHeaders == SectionLabels
E2EBodies ==
    << <<"F", "o", "o", ".">>, <<"-", " ", "b", "a", "r">>,
       <<"1", ".", " ", "x">>, <<"e", "a", "s", "y">> >>
E2EText ==
    E2EHeaders[1] \o <<"\n">> \o E2EBodies[1] \o <<"\n", "\n">>
    \o E2EHeaders[2] \o <<"\n">> \o E2EBodies[2] \o <<"\n", "\n">>
    \o E2EHeaders[3] \o <<"\n">> \o E2EBodies[3] \o <<"\n", "\n">>
    \o E2EHeaders[4] \o <<"\n">> \o E2EBodies[4]

ExampleInputs == {<<AbcText, AbcHeaders>>, <<E2EText, E2EHeaders>>}

SplitInputs ==
    (ShortTexts \X HeaderLists) \cup BuiltInputs \cup ExampleInputs

\* proj_text = text[start_pos:end_pos].strip() is trimmed, and an empty one is
\* skipped before the splitter runs.
ValidInput(v, t) ==
    v = "pretty_print_projects" => (t # <<>> /\ Strip(t) = t)

(***************************************************************************)
(* safe_generate: the retry loop around model.generate(prompt).            *)
(***************************************************************************)
MAX_RETRIES == 5

\* Optional[str]: None, or a string.
None == [none |-> TRUE, str |-> <<>>]
Str(t) == [none |-> FALSE, str |-> t]

\* The classes of error model.generate can raise; all derive from Exception.
ErrorKinds == {"RateLimit", "Auth"}

RawTwoIdeas ==
    <<"I", "D", "E", "A", " ", "1", ":", " ", "a", "\n",
      "I", "D", "E", "A", " ", "2", ":", " ", "b">>
RawOneIdea ==
    <<"I", "D", "E", "A", " ", "1", ":", " ", "a", "\n",
      "I", "D", "E", "A", " ", "2", ":">>
RawNoColon == <<"I", "D", "E", "A", " ", "x">>
ExtraOneIdea == <<"m", "o", "r", "e", "\n", "I", "D", "E", "A", ":", " ", "c">>
ProjStepsOnly == <<"S", "t", "e", "p", "s", ":", "\n", "1", ".", " ", "x">>

\* What model.generate can return for each prompt of the script.
Responses(p) ==
    CASE p = "any" -> {<<>>, <<"o", "k">>}
      [] p = "ideas" -> {RawTwoIdeas, RawOneIdea, RawNoColon, <<>>}
      [] p = "extra" -> {ExtraOneIdea, <<>>}
      [] p = "project" -> {E2EText, ProjStepsOnly}

\* for attempt in range(MAX_RETRIES): the loop body runs while this holds.
InRange_OffByOne(a, n) == a <= n

InRange(a, n) == a < n

\* "except Exception": the handler takes every class of error.
Caught_NotAuth(e) == e # "Auth"

Caught(e) == e \in ErrorKinds

\* wait_time = 2 ** attempt
WaitTime_Linear(a) == 2 * a

WaitTime(a) == 2 ^ a

\* return model.generate(prompt)
ReturnValue_Dropped(t) == None

ReturnValue(t) == Str(t)

(***************************************************************************)
(* generate_ai_ideas and generate_projects.                                *)
(***************************************************************************)
FALLBACK ==
    <<"F", "a", "i", "l", "e", "d", " ", "t", "o", " ", "g", "e", "n", "e", "r",
      "a", "t", "e", " ", "a", "n", " ", "a", "n", "s", "w", "e", "r", " ", "a",
      "f", "t", "e", "r", " ", "s", "e", "v", "e", "r", "a", "l", " ", "a", "t",
      "t", "e", "m", "p", "t", "s", ".">>

IDEA_PREFIX == <<"I", "D", "E", "A", " ">>
IDEA_TAG == <<"I", "D", "E", "A", ":">>

\* s.split("\n")
RECURSIVE SplitLines(_)
SplitLines(s) ==
    LET nl == Find(s, <<"\n">>, 0)
    IN  IF nl = -1 THEN <<s>>
        ELSE <<Slice(s, 0, nl)>> \o SplitLines(Slice(s, nl + 1, Len(s)))

\* line.startswith(prefix)
StartsWith(line, prefix) ==
    Len(line) >= Len(prefix) /\ SubSeq(line, 1, Len(prefix)) = prefix

\* line.split(":", 1): one part when the line holds no colon, else two.
SplitColon(line) ==
    LET c == Find(line, <<":">>, 0)
    IN  IF c = -1 THEN <<line>>
        ELSE <<Slice(line, 0, c), Slice(line, c + 1, Len(line))>>

\* The first loop of generate_ai_ideas over raw.split("\n"); [1] of a one-part
\* split is an IndexError.
RECURSIVE ParseIdeas(_)
ParseIdeas(lines) ==
    IF lines = <<>> THEN [error |-> FALSE, ideas |-> <<>>]
    ELSE LET line == Head(lines)
             rest == ParseIdeas(Tail(lines))
         IN  IF ~StartsWith(line, IDEA_PREFIX) THEN rest
             ELSE IF Len(SplitColon(line)) < 2 THEN [error |-> TRUE, ideas |-> <<>>]
             ELSE LET idea_text == Strip(SplitColon(line)[2])
                  IN  IF idea_text # <<>>
                      THEN [error |-> rest.error,
                            ideas |-> <<idea_text>> \o rest.ideas]
                      ELSE rest

\* The second loop: every line holding "IDEA:" adds what follows its first colon.
RECURSIVE ParseExtra(_)
ParseExtra(lines) ==
    IF lines = <<>> THEN <<>>
    ELSE LET line == Head(lines)
         IN  IF Find(line, IDEA_TAG, 0) # -1
             THEN <<Strip(SplitColon(line)[2])>> \o ParseExtra(Tail(lines))
             ELSE ParseExtra(Tail(lines))

\* ideas[:count]
Take(s, n) == SubSeq(s, 1, Min(n, Len(s)))

\* if text is None: text = "<fallback message>"
FallbackIfNone_Missing(v) == v

FallbackIfNone(v) == IF v.none THEN Str(FALLBACK) ELSE v

\* (extra_raw or "")
OrEmpty(v) == IF v.none \/ v.str = <<>> THEN Str(<<>>) ELSE v

\* if raw is None: return []
IsNone(v) == v.none

(***************************************************************************)
(* Initial states.                                                         *)
(***************************************************************************)
SplitIdle ==
    /\ text = <<>>
    /\ sections = <<>>
    /\ variant = "generate_projects"
    /\ i = 0
    /\ start = 0
    /\ printed = <<>>
    /\ iters = <<>>
    /\ spc = "idle"

RetryIdle ==
    /\ max_retries = MAX_RETRIES
    /\ attempt = 0
    /\ err = "none"
    /\ wait_time = 0
    /\ result = None
    /\ trace = <<>>
    /\ purpose = "any"
    /\ rpc = "idle"

CallerIdle ==
    /\ count = 1
    /\ models = <<>>
    /\ raw = None
    /\ extra_raw = None
    /\ ideas = <<>>
    /\ idx = 1
    /\ midx = 1
    /\ results = <<>>
    /\ returns = <<>>
    /\ gerr = "none"
    /\ gpc = "idle"

ScriptIdle ==
    /\ answer = <<>>
    /\ project_positions = <<>>
    /\ rec = 0
    /\ shown = <<>>
    /\ ai_ideas = <<>>
    /\ yidx = 1
    /\ requests = <<>>
    /\ serr = "none"
    /\ scpc = "idle"

\* The splitter is about to run on (text, sections).  The scripts pass their
\* four fixed labels; the header list is an input here, as in the contract
\* extract(text, headers).
InitSplit ==
    /\ variant \in Variants
    /\ \E in \in SplitInputs :
           /\ text = in[1]
           /\ sections = in[2]
    /\ ValidInput(variant, text)
    /\ i = 0
    /\ start = 0
    /\ printed = <<>>
    /\ iters = <<>>
    /\ spc = "loop"
    /\ RetryIdle
    /\ CallerIdle
    /\ provider = "none"
    /\ ScriptIdle

\* safe_generate(model, prompt) has just been entered.  range(MAX_RETRIES)
\* reads the module global at the call; the shipped value is 5 and the cap is
\* an input here, as in the contract execute(operation, maxAttempts).
InitRetry ==
    /\ max_retries \in 1..MAX_RETRIES
    /\ attempt = 0
    /\ err = "none"
    /\ wait_time = 0
    /\ result = None
    /\ trace = <<>>
    /\ purpose = "any"
    /\ rpc = "attempt"
    /\ SplitIdle
    /\ CallerIdle
    /\ provider = "none"
    /\ ScriptIdle

ModelLists == {<<"gemini-a">>, <<"gemini-a", "gemini-b">>}

\* The script of gemini_llm.py is about to call generate_ai_ideas.
InitCallers ==
    /\ count \in 1..MaxCount
    /\ models \in ModelLists
    /\ raw = None
    /\ extra_raw = None
    /\ ideas = <<>>
    /\ idx = 1
    /\ midx = 1
    /\ results = <<>>
    /\ returns = <<>>
    /\ gerr = "none"
    /\ gpc = "main"
    /\ RetryIdle
    /\ SplitIdle
    /\ provider = "gemini"
    /\ ScriptIdle

(***************************************************************************)
(* The section splitter.                                                   *)
(***************************************************************************)
\* pos == -1: continue
HeaderNotFound ==
    /\ spc = "loop"
    /\ i < Len(sections)
    /\ LET it == SplitIter(text, sections, i, start)
       IN  /\ ~it.found
           /\ iters' = Append(iters, it)
           /\ start' = it.start
    /\ i' = i + 1
    /\ UNCHANGED <<text, sections, variant, printed, spc>>
    /\ UNCHANGED <<retryVars, callerVars>>
    /\ UNCHANGED scriptVars

\* the header is found: the content is printed and the cursor moves
HeaderFound ==
    /\ spc = "loop"
    /\ i < Len(sections)
    /\ LET it == SplitIter(text, sections, i, start)
       IN  /\ it.found
           /\ iters' = Append(iters, it)
           /\ printed' = IF Prints(variant, it.content)
                         THEN Append(printed, [idx |-> i, header |-> it.header,
                                               content |-> it.content])
                         ELSE printed
           /\ start' = it.start
    /\ i' = i + 1
    /\ UNCHANGED <<text, sections, variant, spc>>
    /\ UNCHANGED <<retryVars, callerVars>>
    /\ UNCHANGED scriptVars

\* the loop over sections is exhausted
SplitDone ==
    /\ spc = "loop"
    /\ i = Len(sections)
    /\ spc' = "done"
    /\ UNCHANGED <<text, sections, variant, i, start, printed, iters>>
    /\ UNCHANGED <<retryVars, callerVars>>
    /\ UNCHANGED scriptVars

(***************************************************************************)
(* safe_generate.                                                          *)
(***************************************************************************)
\* model.generate(prompt) returns a text: safe_generate returns it.
CallSucceeds ==
    /\ rpc = "attempt"
    /\ InRange(attempt, max_retries)
    /\ \E t \in Responses(purpose) :
           /\ result' = ReturnValue(t)
           /\ trace' = Append(trace, [ev |-> "ok", attempt |-> attempt,
                                      kind |-> "none", secs |-> 0, str |-> t])
    /\ rpc' = "returned"
    /\ UNCHANGED <<max_retries, attempt, err, wait_time, purpose>>
    /\ UNCHANGED <<splitVars, callerVars>>
    /\ UNCHANGED scriptVars

\* model.generate(prompt) raises e: the handler binds it and computes the wait.
CallFails ==
    /\ rpc = "attempt"
    /\ InRange(attempt, max_retries)
    /\ \E e \in ErrorKinds :
           /\ err' = e
           /\ trace' = Append(trace, [ev |-> "fail", attempt |-> attempt,
                                      kind |-> e, secs |-> 0, str |-> <<>>])
           /\ IF Caught(e)
              THEN /\ wait_time' = WaitTime(attempt)
                   /\ rpc' = "log"
              ELSE /\ wait_time' = wait_time
                   /\ rpc' = "raised"
    /\ UNCHANGED <<max_retries, attempt, result, purpose>>
    /\ UNCHANGED <<splitVars, callerVars>>
    /\ UNCHANGED scriptVars

\* print(f"{model.name} attempt {attempt+1}/{MAX_RETRIES} failed: {e}. ...")
LogFailure ==
    /\ rpc = "log"
    /\ trace' = Append(trace, [ev |-> "log", attempt |-> attempt,
                               kind |-> err, secs |-> wait_time, str |-> <<>>])
    /\ rpc' = "sleep"
    /\ UNCHANGED <<max_retries, attempt, err, wait_time, result, purpose>>
    /\ UNCHANGED <<splitVars, callerVars>>
    /\ UNCHANGED scriptVars

\* time.sleep(wait_time), then the next iteration of the loop
Sleep ==
    /\ rpc = "sleep"
    /\ trace' = Append(trace, [ev |-> "sleep", attempt |-> attempt,
                               kind |-> "none", secs |-> wait_time, str |-> <<>>])
    /\ attempt' = attempt + 1
    /\ rpc' = "attempt"
    /\ UNCHANGED <<max_retries, err, wait_time, result, purpose>>
    /\ UNCHANGED <<splitVars, callerVars>>
    /\ UNCHANGED scriptVars

\* the loop is exhausted: return None
ReturnNone ==
    /\ rpc = "attempt"
    /\ ~InRange(attempt, max_retries)
    /\ result' = None
    /\ rpc' = "returned"
    /\ UNCHANGED <<max_retries, attempt, err, wait_time, trace, purpose>>
    /\ UNCHANGED <<splitVars, callerVars>>
    /\ UNCHANGED scriptVars

(***************************************************************************)
(* The callers of safe_generate.                                           *)
(***************************************************************************)
\* safe_generate(model, prompt) is entered.
Invoke(p) ==
    /\ attempt' = 0
    /\ err' = "none"
    /\ wait_time' = 0
    /\ trace' = <<>>
    /\ purpose' = p
    /\ rpc' = "attempt"
    /\ UNCHANGED <<max_retries, result>>

\* Its frame is left; the returned value stays with the caller.
Unwind ==
    /\ attempt' = 0
    /\ err' = "none"
    /\ wait_time' = 0
    /\ trace' = <<>>
    /\ purpose' = "any"
    /\ rpc' = "idle"
    /\ UNCHANGED <<max_retries, result>>

Crash(e) ==
    /\ gerr' = e
    /\ gpc' = "crashed"

\* raw = safe_generate(model, idea_prompt)
CallIdeas ==
    /\ gpc = "main"
    /\ Invoke("ideas")
    /\ gpc' = "ideas_wait"
    /\ UNCHANGED <<count, models, raw, extra_raw, ideas, idx, midx, results,
                   returns, gerr>>
    /\ UNCHANGED splitVars
    /\ UNCHANGED scriptVars

\* if raw is None: return []; else the first loop over raw.split("\n")
IdeasReturn ==
    /\ gpc = "ideas_wait"
    /\ rpc = "returned"
    /\ raw' = result
    /\ returns' = Append(returns, [purpose |-> "ideas", none |-> result.none])
    /\ IF IsNone(result)
       THEN /\ ideas' = <<>>
            /\ gpc' = "projects"
            /\ gerr' = gerr
       ELSE IF result.none
       THEN /\ Crash("AttributeError")
            /\ ideas' = ideas
       ELSE LET p == ParseIdeas(SplitLines(result.str))
            IN  IF p.error
                THEN /\ Crash("IndexError")
                     /\ ideas' = ideas
                ELSE /\ gerr' = gerr
                     /\ IF Len(p.ideas) < count
                        THEN /\ ideas' = p.ideas
                             /\ gpc' = "extra_call"
                        ELSE /\ ideas' = Take(p.ideas, count)
                             /\ gpc' = "projects"
    /\ Unwind
    /\ UNCHANGED <<count, models, extra_raw, idx, midx, results>>
    /\ UNCHANGED splitVars
    /\ UNCHANGED scriptVars

\* extra_raw = safe_generate(model, extra_prompt)
CallExtra ==
    /\ gpc = "extra_call"
    /\ Invoke("extra")
    /\ gpc' = "extra_wait"
    /\ UNCHANGED <<count, models, raw, extra_raw, ideas, idx, midx, results,
                   returns, gerr>>
    /\ UNCHANGED splitVars
    /\ UNCHANGED scriptVars

\* the second loop, over (extra_raw or "").split("\n"); return ideas[:count]
ExtraReturn ==
    /\ gpc = "extra_wait"
    /\ rpc = "returned"
    /\ extra_raw' = result
    /\ returns' = Append(returns, [purpose |-> "extra", none |-> result.none])
    /\ LET v == OrEmpty(result)
       IN  IF v.none
           THEN /\ Crash("AttributeError")
                /\ ideas' = ideas
           ELSE /\ ideas' = Take(ideas \o ParseExtra(SplitLines(v.str)), count)
                /\ gpc' = "projects"
                /\ gerr' = gerr
    /\ Unwind
    /\ UNCHANGED <<count, models, raw, idx, midx, results>>
    /\ UNCHANGED splitVars
    /\ UNCHANGED scriptVars

\* generate_projects: text = safe_generate(model, prompt) for the next pair
CallProject ==
    /\ gpc = "projects"
    /\ idx <= Len(ideas)
    /\ Invoke("project")
    /\ results' = IF midx = 1 THEN Append(results, <<>>) ELSE results
    /\ gpc' = "project_wait"
    /\ UNCHANGED <<count, models, raw, extra_raw, ideas, idx, midx, returns, gerr>>
    /\ UNCHANGED splitVars
    /\ UNCHANGED scriptVars

\* the fallback for None, results[idx][model.name] = text, and the splitter
\* starts on text
ProjectReturn ==
    /\ gpc = "project_wait"
    /\ rpc = "returned"
    /\ returns' = Append(returns, [purpose |-> "project", none |-> result.none])
    /\ LET v == FallbackIfNone(result)
       IN  /\ results' = [results EXCEPT ![idx] = @ @@ (models[midx] :> v)]
           /\ IF v.none
              THEN /\ Crash("AttributeError")
                   /\ UNCHANGED splitVars
              ELSE /\ text' = v.str
                   /\ sections' = SectionLabels
                   /\ variant' = "generate_projects"
                   /\ i' = 0
                   /\ start' = 0
                   /\ printed' = <<>>
                   /\ iters' = <<>>
                   /\ spc' = "loop"
                   /\ gpc' = "splitting"
                   /\ gerr' = gerr
    /\ Unwind
    /\ UNCHANGED <<count, models, raw, extra_raw, ideas, idx, midx>>
    /\ UNCHANGED scriptVars

\* the splitter is through: the next model, or the next idea
SplitReturn ==
    /\ gpc = "splitting"
    /\ spc = "done"
    /\ IF midx < Len(models)
       THEN /\ midx' = midx + 1
            /\ idx' = idx
       ELSE /\ midx' = 1
            /\ idx' = idx + 1
    /\ gpc' = "projects"
    /\ text' = <<>>
    /\ i' = 0
    /\ start' = 0
    /\ printed' = <<>>
    /\ iters' = <<>>
    /\ spc' = "idle"
    /\ UNCHANGED <<sections, variant>>
    /\ UNCHANGED <<count, models, raw, extra_raw, ideas, results, returns, gerr>>
    /\ UNCHANGED retryVars
    /\ UNCHANGED scriptVars

\* every idea is done: return results
ProjectsDone ==
    /\ gpc = "projects"
    /\ idx > Len(ideas)
    /\ gpc' = "done"
    /\ UNCHANGED <<count, models, raw, extra_raw, ideas, idx, midx, results,
                   returns, gerr>>
    /\ UNCHANGED <<splitVars, retryVars>>
    /\ UNCHANGED scriptVars

(***************************************************************************)
(* The specifications: the splitter alone, safe_generate alone, and the    *)
(* script of gemini_llm.py, which runs both.                               *)
(***************************************************************************)
NextSplit == HeaderNotFound \/ HeaderFound \/ SplitDone

SpecSplit == InitSplit /\ [][NextSplit]_vars

NextRetry == CallSucceeds \/ CallFails \/ LogFailure \/ Sleep \/ ReturnNone

SpecRetry == InitRetry /\ [][NextRetry]_vars

NextCallers ==
    \/ CallIdeas \/ IdeasReturn \/ CallExtra \/ ExtraReturn
    \/ CallProject \/ ProjectReturn \/ SplitReturn \/ ProjectsDone
    \/ NextRetry
    \/ NextSplit

SpecCallers == InitCallers /\ [][NextCallers]_vars

(***************************************************************************)
(* pretty_print_projects (CerebrasLLM/cerebras_llm.py): the records of the *)
(* response are found by the numbered marker "IDEA <digits>:", filtered to *)
(* the numbers 1..10, and each one is handed to the section splitter.      *)
(***************************************************************************)
DigitChars == <<"0", "1", "2", "3", "4", "5", "6", "7", "8", "9">>
Digits == {DigitChars[d] : d \in 1..Len(DigitChars)}

DigitVal(c) == (CHOOSE d \in 1..Len(DigitChars) : DigitChars[d] = c) - 1

\* int(m.group(1))
RECURSIVE ToInt(_)
ToInt(ds) ==
    IF ds = <<>> THEN 0
    ELSE ToInt(SubSeq(ds, 1, Len(ds) - 1)) * Len(DigitChars) + DigitVal(ds[Len(ds)])

\* f"{proj_num}" for proj_num >= 0
RECURSIVE IntToStr(_)
IntToStr(n) ==
    IF n < Len(DigitChars) THEN <<DigitChars[n + 1]>>
    ELSE IntToStr(n \div Len(DigitChars)) \o <<DigitChars[(n % Len(DigitChars)) + 1]>>

\* \d+ is greedy: the position after the run of digits that starts at k.
RECURSIVE DigitsEnd(_, _)
DigitsEnd(t, k) ==
    IF k < Len(t) /\ t[k + 1] \in Digits THEN DigitsEnd(t, k + 1) ELSE k

\* [(int(m.group(1)), m.start()) for m in re.finditer(r"IDEA (\d+):", text)]:
\* a left-to-right scan for non-overlapping matches, from position k.
RECURSIVE Finditer(_, _)
Finditer(t, k) ==
    IF k >= Len(t) THEN <<>>
    ELSE LET from == k + Len(IDEA_PREFIX)
             d == DigitsEnd(t, from)
         IN  IF /\ Slice(t, k, from) = IDEA_PREFIX
                /\ d > from
                /\ d < Len(t)
                /\ t[d + 1] = ":"
             THEN <<[num |-> ToInt(Slice(t, from, d)), pos |-> k]>>
                  \o Finditer(t, d + 1)
             ELSE Finditer(t, k + 1)

\* 1 <= p[0] <= 10
InValidRange(p) == 1 <= p.num /\ p.num <= 10

\* end_pos: the position of the next entry of the FILTERED list, or len(text)
EndPos(t, pp, k) == IF k + 1 < Len(pp) THEN pp[k + 2].pos ELSE Len(t)

\* proj_text = text[start_pos:end_pos].strip()
ProjText(t, pp, k) == Strip(Slice(t, pp[k + 1].pos, EndPos(t, pp, k)))

\* f"IDEA {proj_num}:"
MarkerOnly(n) == IDEA_PREFIX \o IntToStr(n) \o <<":">>

\* if not proj_text or proj_text == f"IDEA {proj_num}:": continue
Skipped(pt, n) == pt = <<>> \/ pt = MarkerOnly(n)

(***************************************************************************)
(* The responses pretty_print_projects is run on: up to MaxPieces pieces,  *)
(* each a marker (numbers inside and outside 1..10, one with a leading     *)
(* zero) or a stretch of text with or without a section label.             *)
(***************************************************************************)
MaxPieces == 3     \* most pieces of a response

Numerals == {<<"1">>, <<"2">>, <<"0">>, <<"1", "1">>, <<"0", "1">>}

Marker(numeral) == IDEA_PREFIX \o numeral \o <<":">>

Pieces ==
    {Marker(n) : n \in Numerals}
    \cup {<<" ", "a", "\n">>,
          <<"S", "t", "e", "p", "s", ":", " ", "x", "\n">>,
          <<"C", "o", "m", "p", "l", "e", "x", "i", "t", "y", ":", " ", "y">>}

RECURSIVE Concat(_)
Concat(ps) == IF ps = <<>> THEN <<>> ELSE Head(ps) \o Concat(Tail(ps))

Answers == {Concat(ps) : ps \in SeqsUpTo(Pieces, MaxPieces)}

(***************************************************************************)
(* The scripts of yandex_llm.py and main.py: the list of ideas is parsed   *)
(* from the first response.  The bullet of the source is written "*".      *)
(***************************************************************************)
BulletChars == {"-", "*", " "}

\* line.lstrip("-* ")
RECURSIVE LStripChars(_, _)
LStripChars(s, chars) ==
    IF s # <<>> /\ Head(s) \in chars THEN LStripChars(Tail(s), chars) ELSE s

\* [line.lstrip("-* ").strip() for line in lines if line.strip()]
RECURSIVE IdeaLines(_)
IdeaLines(lines) ==
    IF lines = <<>> THEN <<>>
    ELSE (IF Strip(Head(lines)) # <<>>
          THEN <<Strip(LStripChars(Head(lines), BulletChars))>>
          ELSE <<>>) \o IdeaLines(Tail(lines))

RawBullets == <<"-", " ", "a", "\n", "*", " ", "b">>
RawPlain == <<"a">>
RawBlank == <<"\n">>

\* What generate can return for each request of a script without retry.
DirectResponses(p) ==
    CASE p = "answer" -> Answers
      [] p = "ideas" -> {RawBullets, RawPlain, RawBlank}
      [] p = "project" -> Responses("project")

\* generate raises e at position pc of a script: no handler encloses the
\* call, the error propagates and ends the run.
Uncaught_Retry(pc, e) == pc

Uncaught(pc, e) == "failed"

Sent(p) == [purpose |-> p, outcome |-> "ok", kind |-> "none"]
Failed(p, e) == [purpose |-> p, outcome |-> "fail", kind |-> e]

\* The script of cerebras_llm.py is about to call llm.generate(prompt).
InitCerebras ==
    /\ provider = "cerebras"
    /\ answer = <<>>
    /\ project_positions = <<>>
    /\ rec = 0
    /\ shown = <<>>
    /\ ai_ideas = <<>>
    /\ yidx = 1
    /\ requests = <<>>
    /\ serr = "none"
    /\ scpc = "request"
    /\ SplitIdle
    /\ RetryIdle
    /\ CallerIdle

\* The script of yandex_llm.py or of main.py is about to call
\* client.generate(idea_prompt).
InitYandex ==
    /\ provider \in {"yandex", "main"}
    /\ answer = <<>>
    /\ project_positions = <<>>
    /\ rec = 0
    /\ shown = <<>>
    /\ ai_ideas = <<>>
    /\ yidx = 1
    /\ requests = <<>>
    /\ serr = "none"
    /\ scpc = "request"
    /\ SplitIdle
    /\ RetryIdle
    /\ CallerIdle

\* One of the four scripts starts.
InitProviders == InitCallers \/ InitCerebras \/ InitYandex

(***************************************************************************)
(* The script of cerebras_llm.py.                                          *)
(***************************************************************************)
\* answer = llm.generate(prompt) returns a text
CerebrasGenerate ==
    /\ provider = "cerebras"
    /\ scpc = "request"
    /\ \E t \in DirectResponses("answer") : answer' = t
    /\ requests' = Append(requests, Sent("answer"))
    /\ scpc' = "matches"
    /\ UNCHANGED <<provider, project_positions, rec, shown, ai_ideas, yidx, serr>>
    /\ UNCHANGED <<splitVars, retryVars, callerVars>>

\* llm.generate(prompt) raises
CerebrasGenerateRaises ==
    /\ provider = "cerebras"
    /\ scpc = "request"
    /\ \E e \in ErrorKinds :
           /\ requests' = Append(requests, Failed("answer", e))
           /\ serr' = e
           /\ scpc' = Uncaught(scpc, e)
    /\ UNCHANGED <<provider, answer, project_positions, rec, shown, ai_ideas, yidx>>
    /\ UNCHANGED <<splitVars, retryVars, callerVars>>

\* matches = re.finditer(...); project_positions = [(int(...), m.start()) ...]
FindMarkers ==
    /\ scpc = "matches"
    /\ project_positions' = Finditer(answer, 0)
    /\ scpc' = "filter"
    /\ UNCHANGED <<provider, answer, rec, shown, ai_ideas, yidx, requests, serr>>
    /\ UNCHANGED <<splitVars, retryVars, callerVars>>

\* project_positions = [p for p in project_positions if 1 <= p[0] <= 10]
FilterPositions ==
    /\ scpc = "filter"
    /\ project_positions' = SelectSeq(project_positions, InValidRange)
    /\ rec' = 0
    /\ scpc' = "records"
    /\ UNCHANGED <<provider, answer, shown, ai_ideas, yidx, requests, serr>>
    /\ UNCHANGED <<splitVars, retryVars, callerVars>>

\* the record is empty or its marker alone: continue
SkipRecord ==
    /\ scpc = "records"
    /\ rec < Len(project_positions)
    /\ Skipped(ProjText(answer, project_positions, rec),
               project_positions[rec + 1].num)
    /\ rec' = rec + 1
    /\ UNCHANGED <<provider, answer, project_positions, shown, ai_ideas, yidx,
                   requests, serr, scpc>>
    /\ UNCHANGED <<splitVars, retryVars, callerVars>>

\* the heading "Project #proj_num" is printed and the splitter starts on
\* proj_text
StartRecord ==
    /\ scpc = "records"
    /\ rec < Len(project_positions)
    /\ LET pt == ProjText(answer, project_positions, rec)
           p == project_positions[rec + 1]
       IN  /\ ~Skipped(pt, p.num)
           /\ shown' = Append(shown, [num |-> p.num, start_pos |-> p.pos,
                                      end_pos |-> EndPos(answer, project_positions, rec),
                                      proj_text |-> pt])
           /\ text' = pt
    /\ sections' = SectionLabels
    /\ variant' = "pretty_print_projects"
    /\ i' = 0
    /\ start' = 0
    /\ printed' = <<>>
    /\ iters' = <<>>
    /\ spc' = "loop"
    /\ scpc' = "splitting"
    /\ UNCHANGED <<provider, answer, project_positions, rec, ai_ideas, yidx,
                   requests, serr>>
    /\ UNCHANGED <<retryVars, callerVars>>

\* the splitter is through: the next record
RecordDone ==
    /\ scpc = "splitting"
    /\ spc = "done"
    /\ rec' = rec + 1
    /\ scpc' = "records"
    /\ text' = <<>>
    /\ i' = 0
    /\ start' = 0
    /\ printed' = <<>>
    /\ iters' = <<>>
    /\ spc' = "idle"
    /\ UNCHANGED <<sections, variant>>
    /\ UNCHANGED <<provider, answer, project_positions, shown, ai_ideas, yidx,
                   requests, serr>>
    /\ UNCHANGED <<retryVars, callerVars>>

\* the loop over project_positions is exhausted
RecordsDone ==
    /\ scpc = "records"
    /\ rec = Len(project_positions)
    /\ scpc' = "done"
    /\ UNCHANGED <<provider, answer, project_positions, rec, shown, ai_ideas,
                   yidx, requests, serr>>
    /\ UNCHANGED <<splitVars, retryVars, callerVars>>

(***************************************************************************)
(* The scripts of yandex_llm.py and main.py.                               *)
(***************************************************************************)
\* idea_result = client.generate(idea_prompt) returns; ai_ideas is parsed
RequestIdeas ==
    /\ provider \in {"yandex", "main"}
    /\ scpc = "request"
    /\ \E t \in DirectResponses("ideas") : ai_ideas' = IdeaLines(SplitLines(t))
    /\ requests' = Append(requests, Sent("ideas"))
    /\ yidx' = 1
    /\ scpc' = "projects"
    /\ UNCHANGED <<provider, answer, project_positions, rec, shown, serr>>
    /\ UNCHANGED <<splitVars, retryVars, callerVars>>

\* client.generate(idea_prompt) raises
RequestIdeasRaises ==
    /\ provider \in {"yandex", "main"}
    /\ scpc = "request"
    /\ \E e \in ErrorKinds :
           /\ requests' = Append(requests, Failed("ideas", e))
           /\ serr' = e
           /\ scpc' = Uncaught(scpc, e)
    /\ UNCHANGED <<provider, answer, project_positions, rec, shown, ai_ideas, yidx>>
    /\ UNCHANGED <<splitVars, retryVars, callerVars>>

\* resp = client.generate(messages, ...) returns; the splitter starts on text
RequestProject ==
    /\ provider \in {"yandex", "main"}
    /\ scpc = "projects"
    /\ yidx <= Len(ai_ideas)
    /\ \E t \in DirectResponses("project") : text' = t
    /\ requests' = Append(requests, Sent("project"))
    /\ sections' = SectionLabels
    /\ variant' = IF provider = "main" THEN "main" ELSE "generate_and_print_projects"
    /\ i' = 0
    /\ start' = 0
    /\ printed' = <<>>
    /\ iters' = <<>>
    /\ spc' = "loop"
    /\ scpc' = "printing"
    /\ UNCHANGED <<provider, answer, project_positions, rec, shown, ai_ideas,
                   yidx, serr>>
    /\ UNCHANGED <<retryVars, callerVars>>

\* client.generate(messages, ...) raises
RequestProjectRaises ==
    /\ provider \in {"yandex", "main"}
    /\ scpc = "projects"
    /\ yidx <= Len(ai_ideas)
    /\ \E e \in ErrorKinds :
           /\ requests' = Append(requests, Failed("project", e))
           /\ serr' = e
           /\ scpc' = Uncaught(scpc, e)
    /\ UNCHANGED <<provider, answer, project_positions, rec, shown, ai_ideas, yidx>>
    /\ UNCHANGED <<splitVars, retryVars, callerVars>>

\* the splitter is through: the next idea
ProjectPrinted ==
    /\ scpc = "printing"
    /\ spc = "done"
    /\ yidx' = yidx + 1
    /\ scpc' = "projects"
    /\ text' = <<>>
    /\ i' = 0
    /\ start' = 0
    /\ printed' = <<>>
    /\ iters' = <<>>
    /\ spc' = "idle"
    /\ UNCHANGED <<sections, variant>>
    /\ UNCHANGED <<provider, answer, project_positions, rec, shown, ai_ideas,
                   requests, serr>>
    /\ UNCHANGED <<retryVars, callerVars>>

\* every idea is done
IdeasDone ==
    /\ scpc = "projects"
    /\ yidx > Len(ai_ideas)
    /\ scpc' = "done"
    /\ UNCHANGED <<provider, answer, project_positions, rec, shown, ai_ideas,
                   yidx, requests, serr>>
    /\ UNCHANGED <<splitVars, retryVars, callerVars>>

(***************************************************************************)
(* The specifications: the script of cerebras_llm.py, and the four scripts *)
(* side by side.                                                           *)
(***************************************************************************)
NextCerebras ==
    \/ CerebrasGenerate \/ CerebrasGenerateRaises
    \/ FindMarkers \/ FilterPositions
    \/ SkipRecord \/ StartRecord \/ RecordDone \/ RecordsDone
    \/ NextSplit

SpecCerebras == InitCerebras /\ [][NextCerebras]_vars

NextYandex ==
    \/ RequestIdeas \/ RequestIdeasRaises
    \/ RequestProject \/ RequestProjectRaises
    \/ ProjectPrinted \/ IdeasDone
    \/ NextSplit

NextProviders == NextCallers \/ NextCerebras \/ NextYandex

SpecProviders == InitProviders /\ [][NextProviders]_vars

(***************************************************************************)
(* Declarative readings of "occurs", "first occurrence" and "trimmed",     *)
(* used to state the properties independently of Find and Strip.           *)
(***************************************************************************)
Occurrences(t, sub) ==
    {k \in 0..(Len(t) - Len(sub)) : \A j \in 1..Len(sub) : t[k + j] = sub[j]}

SetMin(S) == CHOOSE x \in S : \A y \in S : x <= y
SetMax(S) == CHOOSE x \in S : \A y \in S : x >= y

\* The text strictly between positions a and b without its outer whitespace.
TrimmedBetween(t, a, b) ==
    LET solid == {k \in (a + 1)..Min(b, Len(t)) : t[k] \notin WS}
    IN  IF solid = {} THEN <<>>
        ELSE [j \in 1..(SetMax(solid) - SetMin(solid) + 1) |-> t[SetMin(solid) + j - 1]]

PrintedPairs == [k \in 1..Len(printed) |-> <<printed[k].header, printed[k].content>>]

\* C4: for "A:body1 C:body3" and ["A:", "B:", "C:"] the splitter prints exactly
\* "A:" -> "body1" and "C:" -> "body3": the missing "B:" costs no other entry,
\* and the body of "A:" ends at the next header found in the text.
C4_MissingHeaderKeepsOthers ==
    (spc = "done" /\ text = AbcText /\ sections = AbcHeaders) =>
        PrintedPairs = << <<AbcHeaders[1], <<"b", "o", "d", "y", "1">> >>,
                          <<AbcHeaders[3], <<"b", "o", "d", "y", "3">> >> >>

\* What the code prints for that input: one entry, "A:" with the rest of the text.
C4_Witness_CodePrintsOneEntry ==
    /\ spc = "done" /\ text = AbcText /\ sections = AbcHeaders
    /\ PrintedPairs = << <<AbcHeaders[1], Slice(AbcText, 2, Len(AbcText))>> >>

\* The expected result of a round trip: every header with its body, in order.
RoundTripPairs(hs, bs) == [k \in 1..Len(hs) |-> <<hs[k], bs[k]>>]

EachHeaderOnce(t, hs) ==
    \A k \in 1..Len(hs) : Cardinality(Occurrences(t, hs[k])) = 1

C7_PrintedIsSubsequence ==
    /\ \A k \in 1..Len(printed) :
           /\ printed[k].idx \in 0..(Len(sections) - 1)
           /\ printed[k].header = sections[printed[k].idx + 1]
           /\ Occurrences(text, printed[k].header) # {}
    /\ \A k, l \in 1..Len(printed) :
           k < l => /\ printed[k].idx < printed[l].idx
                    /\ printed[k].header # printed[l].header
    /\ start \in 0..Len(text)
    /\ i \in 0..Len(sections)
    /\ Len(iters) = i
    /\ spc = "done" => i = Len(sections)

C7_Witness_SkippedAndPrinted ==
    /\ spc = "done"
    /\ Len(printed) = 2
    /\ Len(sections) = 3
    /\ \E k \in 1..Len(iters) : ~iters[k].found

\* The end boundary C10 describes for the header at list index k found at p.
Boundary(t, secs, k, p) ==
    IF k + 1 < Len(secs) /\ {q \in Occurrences(t, secs[k + 2]) : q >= p} # {}
    THEN SetMin({q \in Occurrences(t, secs[k + 2]) : q >= p})
    ELSE Len(t)

\* C10: in every variant, a header found at p has as end boundary the first
\* occurrence at or after p of the next label of the list (the end of the text
\* when there is none or the header is the last), its body is the trimmed text
\* between p + len(header) and the boundary, the cursor becomes the boundary,
\* and a header that is not found leaves the cursor unchanged.
C10_BoundaryAndCursor ==
    /\ variant \in Variants
    /\ \A k \in 1..Len(iters) :
           LET it == iters[k]
           IN  /\ it.cursor = (IF k = 1 THEN 0 ELSE iters[k - 1].start)
               /\ it.header = sections[k]
               /\ it.found =>
                      /\ it.pos \in Occurrences(text, it.header)
                      /\ it.next_pos = Boundary(text, sections, k - 1, it.pos)
                      /\ it.content =
                           TrimmedBetween(text, it.pos + Len(it.header), it.next_pos)
                      /\ it.start = it.next_pos
               /\ ~it.found => it.start = it.cursor
    /\ start = (IF iters = <<>> THEN 0 ELSE iters[Len(iters)].start)
    /\ \A k \in 1..Len(printed) :
           \E j \in 1..Len(iters) :
               /\ iters[j].found
               /\ printed[k].header = iters[j].header
               /\ printed[k].content = iters[j].content

C10_Witness_BoundaryBeforeEnd ==
    /\ spc = "done"
    /\ \E k \in 1..Len(iters) :
           /\ iters[k].found
           /\ iters[k].next_pos < Len(text)
           /\ iters[k].content # <<>>
    /\ \E k \in 1..Len(iters) : ~iters[k].found /\ iters[k].cursor = 0

(***************************************************************************)
(* The retry loop, read off the trace of one call.                         *)
(***************************************************************************)
Calls == {j \in 1..Len(trace) : trace[j].ev \in {"ok", "fail"}}
Failures == {j \in 1..Len(trace) : trace[j].ev = "fail"}
Sleeps == {j \in 1..Len(trace) : trace[j].ev = "sleep"}

RECURSIVE SleptIn(_)
SleptIn(tr) ==
    IF tr = <<>> THEN 0
    ELSE (IF Head(tr).ev = "sleep" THEN Head(tr).secs ELSE 0) + SleptIn(Tail(tr))

Exhausted == rpc = "returned" /\ Calls = Failures

\* C1: when every invocation fails, safe_generate has invoked the operation
\* exactly n = max_retries times when it returns, it returns None, and it
\* never raises.
C1_AlwaysFailingReturnsNone ==
    /\ rpc # "raised"
    /\ Exhausted => (Cardinality(Calls) = max_retries /\ result = None)
    /\ Cardinality(Calls) <= max_retries

C1_Witness_FiveFailures ==
    /\ Exhausted
    /\ max_retries = MAX_RETRIES
    /\ Cardinality(Failures) = 5
    /\ result = None

\* C2: when the k-th invocation is the first to succeed, safe_generate has made
\* exactly k invocations (k - 1 failures, then the success), returns the text
\* of the k-th, and the success is the last thing it does: no invocation, log
\* or sleep follows it.
C2_SuccessOnKthReturnsText ==
    \A j \in 1..Len(trace) :
        trace[j].ev = "ok" =>
            /\ j = Len(trace)
            /\ rpc = "returned"
            /\ result = Str(trace[j].str)
            /\ Cardinality(Calls) = trace[j].attempt + 1
            /\ Cardinality(Failures) = trace[j].attempt
            /\ Cardinality(Sleeps) = trace[j].attempt
            /\ trace[j].attempt + 1 <= max_retries

C2_Witness_SuccessOnThird ==
    /\ rpc = "returned"
    /\ result = Str(<<"o", "k">>)
    /\ Cardinality(Calls) = 3
    /\ Cardinality(Failures) = 2
    /\ max_retries = MAX_RETRIES

\* C3: when all n attempts fail there is no sleep after the final attempt: the
\* total slept is 2^0 + ... + 2^(n-2) = 2^(n-1) - 1 seconds, and with n = 1
\* there is no sleep at all.
C3_NoSleepAfterFinalAttempt ==
    Exhausted =>
        /\ SleptIn(trace) = 2 ^ (max_retries - 1) - 1
        /\ trace[Len(trace)].ev # "sleep"
        /\ max_retries = 1 => Sleeps = {}

\* What the code does with five failures: 1 + 2 + 4 + 8 + 16 = 31 seconds, the
\* last 16 of them after the final attempt.
C3_Witness_SleepAfterFinalAttempt ==
    /\ Exhausted
    /\ max_retries = MAX_RETRIES
    /\ SleptIn(trace) = 31
    /\ trace[Len(trace)].ev = "sleep"
    /\ trace[Len(trace)].secs = 16

\* C6: whatever the kind of error the operation raises, the failure is caught
\* (safe_generate never raises), logged, and followed by the next attempt
\* while attempts remain; the handling does not depend on the kind.
C6_EveryErrorKindIsRetried ==
    /\ rpc # "raised"
    /\ \A j \in Failures :
           /\ trace[j].kind \in ErrorKinds
           /\ j = Len(trace) => rpc = "log"
           /\ j < Len(trace) =>
                  /\ trace[j + 1].ev = "log"
                  /\ trace[j + 1].kind = trace[j].kind
                  /\ trace[j + 1].secs = 2 ^ trace[j].attempt
           /\ j + 2 < Len(trace) =>
                  /\ trace[j + 3].ev \in {"ok", "fail"}
                  /\ trace[j + 3].attempt = trace[j].attempt + 1
           /\ (j + 2 = Len(trace) /\ trace[j].attempt + 1 < max_retries) =>
                  rpc = "attempt"

C6_Witness_TwoKindsRetried ==
    /\ rpc = "returned"
    /\ \E j, k \in Failures :
           /\ trace[j].kind = "Auth"
           /\ trace[k].kind = "RateLimit"
           /\ j < k
    /\ trace[Len(trace)].ev = "ok"

\* C9: a failed attempt with index a is followed by exactly one log event and
\* then exactly one sleep of 2^a seconds, in that order, before the next
\* attempt; a successful attempt is followed by no log and no sleep.
C9_FailThenLogThenSleep ==
    \A j \in 1..Len(trace) :
        /\ trace[j].ev = "fail" =>
               /\ j = Len(trace) => rpc = "log"
               /\ j < Len(trace) =>
                      (trace[j + 1].ev = "log" /\ trace[j + 1].attempt = trace[j].attempt)
        /\ trace[j].ev = "log" =>
               /\ j > 1 /\ trace[j - 1].ev = "fail"
               /\ j = Len(trace) => rpc = "sleep"
               /\ j < Len(trace) =>
                      /\ trace[j + 1].ev = "sleep"
                      /\ trace[j + 1].attempt = trace[j].attempt
                      /\ trace[j + 1].secs = 2 ^ trace[j].attempt
        /\ trace[j].ev = "sleep" =>
               /\ j > 1 /\ trace[j - 1].ev = "log"
               /\ j < Len(trace) =>
                      /\ trace[j + 1].ev \in {"ok", "fail"}
                      /\ trace[j + 1].attempt = trace[j].attempt + 1
        /\ trace[j].ev = "ok" => j = Len(trace)
        /\ (trace[j].ev \in {"ok", "fail"} /\ j > 1) => trace[j - 1].ev = "sleep"
        /\ (trace[j].ev \in {"ok", "fail"} /\ j = 1) => trace[j].attempt = 0

C9_Witness_SleptFourThenOk ==
    /\ rpc = "returned"
    /\ Len(trace) = 10
    /\ trace[9].ev = "sleep" /\ trace[9].secs = 4 /\ trace[9].attempt = 2
    /\ trace[10].ev = "ok"

(***************************************************************************)
(* The callers of safe_generate, read off the calls that have returned.    *)
(***************************************************************************)
IsProjectReturn(r) == r.purpose = "project"
ProjectReturns == SelectSeq(returns, IsProjectReturn)

\* The (idea, model) pair the j-th call of generate_projects was made for.
PairIdea(j) == ((j - 1) \div Len(models)) + 1
PairModel(j) == models[((j - 1) % Len(models)) + 1]

\* C8: no caller hands None to a string operation: generate_projects stores and
\* splits the fallback message for every (idea, model) pair whose call returned
\* None, generate_ai_ideas returns [] when its first call returned None (and
\* asks nothing more), and a follow-up call that returned None adds no idea.
C8_CallersCheckForNone ==
    /\ gerr # "AttributeError"
    /\ \A k \in 1..Len(results) : \A m \in DOMAIN results[k] : ~results[k][m].none
    /\ \A j \in 1..Len(ProjectReturns) :
           /\ PairIdea(j) \in 1..Len(results)
           /\ PairModel(j) \in DOMAIN results[PairIdea(j)]
           /\ ProjectReturns[j].none =>
                  results[PairIdea(j)][PairModel(j)] = Str(FALLBACK)
           /\ ~ProjectReturns[j].none =>
                  results[PairIdea(j)][PairModel(j)].str \in Responses("project")
    /\ gpc = "splitting" =>
           /\ text = results[idx][models[midx]].str
           /\ ProjectReturns[Len(ProjectReturns)].none => text = FALLBACK
    /\ (returns # <<>> /\ returns[1].none) =>
           /\ raw = None
           /\ ideas = <<>>
           /\ Len(returns) = 1
           /\ gpc \in {"projects", "done"}
    /\ \A k \in 1..Len(returns) :
           (returns[k].purpose = "extra" /\ returns[k].none) =>
               /\ extra_raw = None
               /\ ideas = Take(ParseIdeas(SplitLines(raw.str)).ideas, count)

C8_Witness_FallbackStored ==
    /\ gpc = "done"
    /\ \E j \in 1..Len(ProjectReturns) :
           /\ ProjectReturns[j].none
           /\ results[PairIdea(j)][PairModel(j)] = Str(FALLBACK)
    /\ \E k \in 1..Len(returns) : returns[k].purpose = "extra" /\ returns[k].none
    /\ Len(ideas) = 1

(***************************************************************************)
(* The records of pretty_print_projects, read off the response itself: a   *)
(* marker is "IDEA ", one digit or more, and a colon; the record of a      *)
(* marker starts at the marker.                                            *)
(***************************************************************************)
MarkerAt(t, k, d) ==
    /\ k + Len(IDEA_PREFIX) + d < Len(t)
    /\ SubSeq(t, k + 1, k + Len(IDEA_PREFIX)) = IDEA_PREFIX
    /\ \A j \in 1..d : t[k + Len(IDEA_PREFIX) + j] \in Digits
    /\ t[k + Len(IDEA_PREFIX) + d + 1] = ":"

AllMarkers(t) ==
    {[num |-> ToInt(SubSeq(t, x[1] + Len(IDEA_PREFIX) + 1, x[1] + Len(IDEA_PREFIX) + x[2])),
      pos |-> x[1]] :
        x \in {y \in (0..Len(t)) \X (1..Len(t)) : MarkerAt(t, y[1], y[2])}}

OutOfRange(m) == m.num \notin 1..10

\* C11: every record that is split and printed starts at a marker whose
\* number is in 1..10, and no record whose marker number is outside 1..10
\* lies inside the text of a record that is split and printed.
C11_OutOfRangeTextIsNeverSplit ==
    \A r \in 1..Len(shown) :
        /\ shown[r].num \in 1..10
        /\ [num |-> shown[r].num, pos |-> shown[r].start_pos] \in AllMarkers(answer)
        /\ \A m \in AllMarkers(answer) :
               OutOfRange(m) =>
                   ~(shown[r].start_pos <= m.pos /\ m.pos < shown[r].end_pos)

\* What the code does: the end of a record is the next marker of the FILTERED
\* list, so the record of an out-of-range marker that follows an in-range one
\* is part of its text, and a section found after that marker is printed
\* under the in-range number.
C11_Witness_OutOfRangeSectionPrinted ==
    /\ scpc = "splitting"
    /\ spc = "done"
    /\ shown # <<>>
    /\ \E m \in AllMarkers(answer) :
           /\ OutOfRange(m)
           /\ shown[Len(shown)].start_pos < m.pos
           /\ m.pos < shown[Len(shown)].end_pos
           /\ \E e \in 1..Len(printed) :
                  shown[Len(shown)].start_pos + iters[printed[e].idx + 1].pos > m.pos

(***************************************************************************)
(* The outbound requests of the four scripts: gemini_llm.py sends each one *)
(* through safe_generate (trace), the others call generate (requests).     *)
(***************************************************************************)
Direct == {"yandex", "cerebras", "main"}

FailedRequests == {k \in 1..Len(requests) : requests[k].outcome = "fail"}

\* The run has ended with the error of a request.
RequestErrorEndedRun == scpc = "failed" \/ rpc = "raised" \/ gerr \in ErrorKinds

=============================================================================
